---- MODULE Spec2Model ----
(***************************************************************************)
(* Model of @agentcash/telemetry: the withTelemetry route wrapper          *)
(* (src/src/telemetry.ts) and extractVerifiedWallet                        *)
(* (src/unnamed/part_001, imported as ./extract-wallet).                   *)
(*                                                                         *)
(* JavaScript strings are sequences of characters, so that toLowerCase is  *)
(* computed character by character; null, undefined and a non-string JSON  *)
(* value are one-element sequences whose element is no character.          *)
(***************************************************************************)
EXTENDS Naturals, Sequences, FiniteSets, TLC

\* ------------------------------------------------------------------ bounds
MaxStrLen == 1
MaxSetCalls == 2
MaxLateCalls == 1
NumReqs == 2

\* ------------------------------------------------------------- JS values
Alphabet == {"A", "b"}
Strs == UNION {[1..n -> Alphabet] : n \in 0..MaxStrLen}

Null == <<"#null">>
Undef == <<"#undefined">>
NonStr == <<"#number">>

IsString(v) == v \notin {Null, Undef, NonStr}

LowerChar(c) == CASE c = "A" -> "a"
                  [] c = "B" -> "b"
                  [] c = "D" -> "d"
                  [] c = "E" -> "e"
                  [] c = "F" -> "f"
                  [] OTHER -> c

ToLowerCase(s) == [i \in 1..Len(s) |-> LowerChar(s[i])]

\* ---------------------------------------------------------------- headers
\* A decoded JSON document: ok = FALSE when base64/JSON decoding throws;
\* payload = FALSE when the document has no payload object; auth is
\* payload.authorization.from and flat is payload.from (Undef when missing
\* or null).
NoJson == [ok |-> FALSE, payload |-> FALSE, auth |-> Undef, flat |-> Undef]
FromVals == Strs \cup {Undef, NonStr}
Payloads == [ok : {TRUE}, payload : {TRUE}, auth : FromVals, flat : FromVals]
JsonDocs == Payloads \cup {[ok |-> TRUE, payload |-> FALSE, auth |-> Undef, flat |-> Undef]}

\* A header slot: present = FALSE is what Headers.get answers null for; text
\* is the value; json is what the value decodes to.
Absent == [present |-> FALSE, text |-> <<>>, json |-> NoJson]
Plain(s) == [present |-> TRUE, text |-> s, json |-> NoJson]
Encoded(j) == [present |-> TRUE, text |-> <<"b64">>, json |-> j]
Garbage == [present |-> TRUE, text |-> <<"%%">>, json |-> NoJson]

HeaderNames == {"x-wallet-address", "x-client-id", "x-session-id", "referer",
                "content-type", "x-payer-address", "payment-signature", "x-payment"}

\* Headers.get is case-insensitive: the name is lower-cased before the lookup.
CanonName(name) == CASE name = "X-Wallet-Address" -> "x-wallet-address"
                     [] name = "X-Client-ID" -> "x-client-id"
                     [] name = "X-Session-ID" -> "x-session-id"
                     [] name = "Referer" -> "referer"
                     [] name = "PAYMENT-SIGNATURE" -> "payment-signature"
                     [] name = "X-PAYMENT" -> "x-payment"
                     [] OTHER -> name

HeadersGet(h, name) == h[CanonName(name)]

\* a ?? b on header lookups: b only when a is null.
Coalesce(a, b) == IF a.present THEN a ELSE b

\* JS truthiness of a string-or-null header value.
Truthy(v) == v.present /\ v.text # <<>>

StrOrNull(v) == IF v.present THEN v.text ELSE Null

\* ------------------------------------------------- extractVerifiedWallet
Ret(v) == [kind |-> "return", val |-> v]
Thrown(v) == [kind |-> "throw", val |-> v]

\* payload?.authorization?.from ?? payload?.from with the flat form first.
PayerFromFlatFirst(j) ==
    LET nested == IF j.payload THEN j.auth ELSE Undef
        flat == IF j.payload THEN j.flat ELSE Undef
        from == IF flat # Undef THEN flat ELSE nested
    IN IF IsString(from) THEN ToLowerCase(from) ELSE Null

\* payload?.authorization?.from ?? payload?.from, then the typeof test.
PayerFrom(j) ==
    LET nested == IF j.payload THEN j.auth ELSE Undef
        flat == IF j.payload THEN j.flat ELSE Undef
        from == IF nested # Undef THEN nested ELSE flat
    IN IF IsString(from) THEN ToLowerCase(from) ELSE Null

\* decodePaymentSignatureHeader of @x402/core/http, reached through require:
\* it throws when the package is not installed or the value does not decode.
DecodePaymentSignatureHeader(hv, lib) ==
    IF lib = "installed" /\ hv.json.ok THEN Ret(hv.json) ELSE Thrown(Null)

\* JSON.parse(Buffer.from(paymentHeader, 'base64').toString())
ManualDecode(hv) == IF hv.json.ok THEN Ret(hv.json) ELSE Thrown(Null)

\* The catch of the first decoder: the manual decode in its own try/catch.
ManualFallback(hv) ==
    LET decoded == ManualDecode(hv)
    IN IF decoded.kind = "throw" THEN Ret(Null) ELSE Ret(PayerFrom(decoded.val))

\* The try around the first decoder.
DecodePayment(hv, lib) ==
    LET payment == DecodePaymentSignatureHeader(hv, lib)
    IN IF payment.kind = "throw" THEN ManualFallback(hv) ELSE Ret(PayerFrom(payment.val))

\* The chain with the legacy name looked up first.
SelectPaymentHeaderLegacyFirst(h) ==
    Coalesce(HeadersGet(h, "X-PAYMENT"),
      Coalesce(HeadersGet(h, "x-payment"),
        Coalesce(HeadersGet(h, "PAYMENT-SIGNATURE"), HeadersGet(h, "payment-signature"))))

\* The ?? chain over the four spellings of the payment header.
SelectPaymentHeader(h) ==
    Coalesce(HeadersGet(h, "PAYMENT-SIGNATURE"),
      Coalesce(HeadersGet(h, "payment-signature"),
        Coalesce(HeadersGet(h, "X-PAYMENT"), HeadersGet(h, "x-payment"))))

\* The body with the two sources in the other order.
ExtractBodyPaymentFirst(hs, lib) ==
    IF hs.broken THEN Thrown(Null)
    ELSE LET paymentHeader == SelectPaymentHeader(hs.map)
             payerAddress == HeadersGet(hs.map, "x-payer-address")
         IN IF Truthy(paymentHeader) THEN DecodePayment(paymentHeader, lib)
            ELSE IF Truthy(payerAddress) THEN Ret(ToLowerCase(payerAddress.text))
            ELSE Ret(Null)

\* The body falling back on the self-reported address when nothing else is there.
ExtractBodyWalletFallback(hs, lib) ==
    IF hs.broken THEN Thrown(Null)
    ELSE LET payerAddress == HeadersGet(hs.map, "x-payer-address")
             paymentHeader == SelectPaymentHeader(hs.map)
             walletAddress == HeadersGet(hs.map, "X-Wallet-Address")
         IN IF Truthy(payerAddress) THEN Ret(ToLowerCase(payerAddress.text))
            ELSE IF ~Truthy(paymentHeader)
                 THEN (IF Truthy(walletAddress) THEN Ret(ToLowerCase(walletAddress.text))
                       ELSE Ret(Null))
            ELSE DecodePayment(paymentHeader, lib)

\* The body of the outer try.  hs.broken: the headers argument is no usable
\* Headers object, so that headers.get throws.
ExtractBody(hs, lib) ==
    IF hs.broken THEN Thrown(Null)
    ELSE LET payerAddress == HeadersGet(hs.map, "x-payer-address")
             paymentHeader == SelectPaymentHeader(hs.map)
         IN IF Truthy(payerAddress) THEN Ret(ToLowerCase(payerAddress.text))
            ELSE IF ~Truthy(paymentHeader) THEN Ret(Null)
            ELSE DecodePayment(paymentHeader, lib)

\* extractVerifiedWallet without its outer try/catch.
ExtractVerifiedWalletNoCatch(hs, lib) == ExtractBody(hs, lib)

\* extractVerifiedWallet: the outer catch answers null.
ExtractVerifiedWallet(hs, lib) ==
    LET res == ExtractBody(hs, lib)
    IN IF res.kind = "throw" THEN Ret(Null) ELSE res

\* ============================================================ withTelemetry
Reqs == 1..NumReqs

\* ------------------------------------------------------------- responses
\* kind "NextResponse": a response object; kind "invalid": a value that is no
\* response object (reading its status or headers throws); kind "none": the
\* variable is not assigned.  bodyUsed: the body was already read, so that
\* clone() throws.  contentType is the content-type header or Null.
NoResponse == [kind |-> "none", status |-> 0, contentType |-> Null,
               body |-> <<>>, bodyUsed |-> FALSE]
Ok200 == [kind |-> "NextResponse", status |-> 200, contentType |-> <<"json">>,
          body |-> <<"{ok:true}">>, bodyUsed |-> FALSE]
NotFound404 == [kind |-> "NextResponse", status |-> 404, contentType |-> Null,
                body |-> <<"missing">>, bodyUsed |-> FALSE]
Used200 == [kind |-> "NextResponse", status |-> 200, contentType |-> <<"json">>,
            body |-> <<"{ok:true}">>, bodyUsed |-> TRUE]
Challenge402 == [kind |-> "NextResponse", status |-> 402, contentType |-> <<"json">>,
                 body |-> <<"{challenge}">>, bodyUsed |-> FALSE]
InvalidResponse == [kind |-> "invalid", status |-> 0, contentType |-> Null,
                    body |-> <<>>, bodyUsed |-> FALSE]

\* What a handler may resolve with.
HandlerResponses == {Ok200, NotFound404, Used200, InvalidResponse}

\* NextResponse.json({ success: false, error: message }, { status: 500 })
ErrorResponse(message) ==
    [kind |-> "NextResponse", status |-> 500, contentType |-> <<"json">>,
     body |-> <<"{success:false,error:">> \o message \o <<"}">>, bodyUsed |-> FALSE]

\* ---------------------------------------------------------- thrown values
\* type "NextResponse": instanceof NextResponse; type "Error": instanceof
\* Error; type "other": any other value; truthy is the value's JS truthiness.
NoError == [type |-> "none", truthy |-> FALSE, message |-> <<>>, resp |-> NoResponse]
ThrownChallenge == [type |-> "NextResponse", truthy |-> TRUE, message |-> <<>>,
                    resp |-> Challenge402]
ThrownError == [type |-> "Error", truthy |-> TRUE, message |-> <<"boom">>,
                resp |-> NoResponse]
ThrownString == [type |-> "other", truthy |-> TRUE, message |-> <<"oops">>,
                 resp |-> NoResponse]
ThrownUndefined == [type |-> "other", truthy |-> FALSE, message |-> <<>>,
                    resp |-> NoResponse]

\* What a handler may reject with.
ThrownValues == {ThrownChallenge, ThrownError, ThrownString, ThrownUndefined}

\* -------------------------------------------------------------- requests
Route == "/api/resource"
UrlOrigins == {"https://host-a", "https://host-b"}
NotConfigured == "#undefined"
ConfiguredOrigins == {NotConfigured, "https://server"}

\* (method, body): body "text" is a non-empty readable body, "empty" reads as
\* '', "error" makes clone() or text() fail.
BodyText == <<"{q:1}">>
RequestShapes == {<<"GET", "empty">>, <<"DELETE", "text">>, <<"POST", "text">>,
                  <<"POST", "empty">>, <<"POST", "error">>, <<"PUT", "text">>,
                  <<"PATCH", "text">>}

IdentityHeaders == {
    [n \in {"x-wallet-address", "x-client-id", "x-session-id", "referer", "content-type"}
        |-> Absent],
    [n \in {"x-wallet-address", "x-client-id", "x-session-id", "referer", "content-type"}
        |-> IF n = "x-wallet-address" THEN Plain(<<"F", "e">>) ELSE Absent],
    [n \in {"x-wallet-address", "x-client-id", "x-session-id", "referer", "content-type"}
        |-> CASE n = "x-wallet-address" -> Plain(<<"F", "e">>)
              [] n = "x-client-id" -> Plain(<<"cli">>)
              [] n = "x-session-id" -> Plain(<<"ses">>)
              [] n = "referer" -> Plain(<<"ref">>)
              [] OTHER -> Plain(<<"json">>)]}

PaymentHeaders == {
    [n \in {"x-payer-address", "payment-signature", "x-payment"} |-> Absent],
    [n \in {"x-payer-address", "payment-signature", "x-payment"}
        |-> IF n = "x-payer-address" THEN Plain(<<"A">>) ELSE Absent],
    [n \in {"x-payer-address", "payment-signature", "x-payment"}
        |-> IF n = "payment-signature"
            THEN Encoded([ok |-> TRUE, payload |-> TRUE, auth |-> <<"b", "B">>, flat |-> Undef])
            ELSE Absent]}

HeaderMap(i, p) == [n \in HeaderNames |-> IF n \in DOMAIN i THEN i[n] ELSE p[n]]

RequestHeaderMaps == {HeaderMap(i, p) : i \in IdentityHeaders, p \in PaymentHeaders}

\* The header map carrying every identity header and no payment header.
PlainHeaderMap ==
    HeaderMap(CHOOSE i \in IdentityHeaders : i["x-client-id"].present,
              CHOOSE p \in PaymentHeaders : \A n \in DOMAIN p : ~p[n].present)

\* The requests a run draws from: every header map on a POST with a body, and
\* every method/body shape and URL origin with the plain header map.
Requests ==
    {[method |-> "POST", body |-> "text", urlOrigin |-> "https://host-a", headers |-> h] :
        h \in RequestHeaderMaps}
    \cup {[method |-> s[1], body |-> s[2], urlOrigin |-> o, headers |-> PlainHeaderMap] :
            s \in RequestShapes, o \in UrlOrigins}

\* Which statement of the header capture may throw (0: none): 1, the first
\* request.headers.get, when the request carries no usable Headers object; 6,
\* request.nextUrl.pathname, when the request is no NextRequest.
HeaderFailPoints == {0, 1, 6}

NoRequest == [method |-> "", body |-> "empty", urlOrigin |-> "",
              headers |-> [n \in HeaderNames |-> Absent]]

SetAddrs == {<<"D", "d">>, <<"E">>}
LateAddrs == {<<"E">>}
Libs == {"installed", "missing"}
SinkModes == {"ok", "fail", "throw"}
NoHeadersJson == [isNull |-> TRUE, entries |-> {}]

VARIABLES
    active,           \* the requests this run may start
    configuredOrigin, \* the origin option given to initTelemetry
    pc,               \* where each call of the wrapped handler stands
    request,          \* the request each call was given
    loc,              \* the let-variables of the call (telemetry.ts:26-40, 70-71, 99)
    ctx,              \* the TelemetryContext handed to the handler
    hist,             \* what happened in the call: failed steps, handler behaviour
    outcome,          \* what the caller of the wrapped handler sees
    inserted,         \* the invocations insertInvocation was called with, in order
    inflight,         \* writes dispatched to the sink and not yet settled
    sinkRows,         \* the rows the sink stored
    xin,              \* extractVerifiedWallet used standalone: its input
    xout              \* and its result

vars == <<active, configuredOrigin, pc, request, loc, ctx, hist, outcome,
          inserted, inflight, sinkRows, xin, xout>>


\* The inputs a step draws from: the full set when one call is in flight, a
\* few of them when several calls run side by side.
Drawn(full, few) == IF Cardinality(active) > 1 THEN few ELSE full

\* Two requests that differ in every identity header, for calls side by side.
ConcurrentRequests ==
    {[method |-> "POST", body |-> "text", urlOrigin |-> "https://host-a",
      headers |-> HeaderMap(i, p)] :
        <<i, p>> \in {<<i, p>> \in IdentityHeaders \X PaymentHeaders :
                         /\ i["x-client-id"].present = p["x-payer-address"].present
                         /\ i["x-wallet-address"].present = i["x-client-id"].present
                         /\ ~p["payment-signature"].present}}

\* ------------------------------------------------------------ pure helpers
\* The header value as sent, or null.
LowerOrNullAsSent(v) == IF v.present THEN v.text ELSE Null

\* request.headers.get(name)?.toLowerCase() ?? null
LowerOrNull(v) == IF v.present THEN ToLowerCase(v.text) ELSE Null

\* JSON.stringify(Object.fromEntries(headers.entries())): the name/value pairs.
HeadersJson(h) ==
    [isNull |-> FALSE, entries |-> {<<n, h[n].text>> : n \in {m \in DOMAIN h : h[m].present}}]

\* getOrigin() of ./init: the configured origin, or undefined.
GetOrigin(configured) == configured

\* The let-variables before the first try block.
InitialLocals ==
    [walletAddress |-> Null, clientId |-> Null, sessionId |-> Null,
     verifiedWallet |-> Null, route |-> "", method |-> "", origin |-> "",
     referer |-> Null, requestContentType |-> Null,
     requestHeadersJson |-> NoHeadersJson, requestBodyString |-> Null,
     response |-> NoResponse, handlerError |-> NoError,
     responseBodyString |-> Null]

\* The try block of the header capture: statement i (1..10) takes effect when
\* no earlier statement threw.  failAt = 0: nothing throws; failAt = k: the
\* k-th statement throws.  A throwing extractVerifiedWallet is statement 9.
CaptureHeaders(rq, failAt, configured, lib) ==
    LET h == rq.headers
        extracted == ExtractVerifiedWallet([broken |-> FALSE, map |-> h], lib)
        stop == IF extracted.kind = "throw" /\ (failAt = 0 \/ failAt > 9) THEN 9 ELSE failAt
        Ran(i) == stop = 0 \/ i < stop
    IN [InitialLocals EXCEPT
          !.walletAddress = IF Ran(1) THEN LowerOrNull(HeadersGet(h, "X-Wallet-Address")) ELSE Null,
          !.clientId = IF Ran(2) THEN StrOrNull(HeadersGet(h, "X-Client-ID")) ELSE Null,
          !.sessionId = IF Ran(3) THEN StrOrNull(HeadersGet(h, "X-Session-ID")) ELSE Null,
          !.referer = IF Ran(4) THEN StrOrNull(HeadersGet(h, "Referer")) ELSE Null,
          !.requestContentType = IF Ran(5) THEN StrOrNull(HeadersGet(h, "content-type")) ELSE Null,
          !.route = IF Ran(6) THEN Route ELSE "",
          !.method = IF Ran(7) THEN rq.method ELSE "",
          !.origin = IF Ran(8)
                     THEN (IF GetOrigin(configured) # NotConfigured
                           THEN GetOrigin(configured) ELSE rq.urlOrigin)
                     ELSE "",
          !.verifiedWallet = IF Ran(9) THEN extracted.val ELSE Null,
          !.requestHeadersJson = IF Ran(10) THEN HeadersJson(h) ELSE NoHeadersJson]

\* A context that starts without the extracted address.
BuildContextUnverified(l) ==
    [walletAddress |-> l.walletAddress, clientId |-> l.clientId,
     sessionId |-> l.sessionId, verifiedWallet |-> Null]

\* const ctx = { walletAddress, clientId, sessionId, verifiedWallet, ... }
BuildContext(l) ==
    [walletAddress |-> l.walletAddress, clientId |-> l.clientId,
     sessionId |-> l.sessionId, verifiedWallet |-> l.verifiedWallet]

NoContext == BuildContext(InitialLocals)

\* An error raised inside the telemetry code itself.
TelemetryError == [type |-> "Error", truthy |-> TRUE, message |-> <<"telemetry">>,
                   resp |-> NoResponse]

\* The four catch blocks of the telemetry path: what of a caught error goes on
\* propagating (NoError: nothing, the error is swallowed).
CatchHeaderCaptureRethrows(e) == e
CatchHeaderCapture(e) == NoError
CatchRequestBodyRethrows(e) == e
CatchRequestBody(e) == NoError
CatchResponseBody(e) == NoError
CatchLoggingRethrows(e) == e
CatchLogging(e) == NoError

\* request.clone() and cloned.text(): only for POST, PUT and PATCH, as read
\* from the captured method.  Ret(Null) stands for "requestBodyString is left
\* as it is": the method carries no body or the body read is ''.
ReadRequestBody(l, rq) ==
    IF l.method \in {"POST", "PUT", "PATCH"}
    THEN (IF rq.body = "error" THEN Thrown(TelemetryError)
          ELSE IF rq.body = "text" THEN Ret(BodyText) ELSE Ret(Null))
    ELSE Ret(Null)

\* The catch block without the NextResponse case.
CatchHandlerErrorNoChallenge(l, error) ==
    [l EXCEPT !.handlerError = error,
              !.response = ErrorResponse(IF error.type = "Error" THEN error.message
                                         ELSE <<"Internal server error">>)]

\* The catch block taking a message from whatever was thrown.
CatchHandlerErrorAnyMessage(l, error) ==
    [l EXCEPT !.handlerError = error,
              !.response = IF error.type = "NextResponse" THEN error.resp
                           ELSE ErrorResponse(error.message)]

\* The catch block around the handler call.
CatchHandlerError(l, error) ==
    [l EXCEPT !.handlerError = error,
              !.response = IF error.type = "NextResponse" THEN error.resp
                           ELSE ErrorResponse(IF error.type = "Error" THEN error.message
                                              ELSE <<"Internal server error">>)]

\* response.clone() and cloned.text(): clone throws on a value that is no
\* response and on a response whose body was already read.
ReadResponseBody(resp) ==
    IF resp.kind = "NextResponse" /\ ~resp.bodyUsed THEN Ret(resp.body)
    ELSE Thrown(TelemetryError)

\* Reading the body of the response itself.
ResponseReadInPlace(resp) == [resp EXCEPT !.bodyUsed = TRUE]

\* The response after the capture: the body was read from the clone, the
\* response itself is as the handler left it.
ResponseAfterCapture(resp) == resp

StatusTextFromCode(code) ==
    CASE code = 200 -> "OK"
      [] code = 201 -> "Created"
      [] code = 204 -> "No Content"
      [] code = 400 -> "Bad Request"
      [] code = 401 -> "Unauthorized"
      [] code = 402 -> "Payment Required"
      [] code = 403 -> "Forbidden"
      [] code = 404 -> "Not Found"
      [] code = 500 -> "Internal Server Error"
      [] code = 504 -> "Gateway Timeout"
      [] OTHER -> ToString(code)

\* The McpResourceInvocation literal (duration and created_at, which are
\* clock readings, are left out).
BuildInvocation(r, l) ==
    [id |-> r,
     x_wallet_address |-> l.walletAddress,
     x_client_id |-> l.clientId,
     session_id |-> l.sessionId,
     verified_wallet_address |-> l.verifiedWallet,
     method |-> l.method,
     route |-> l.route,
     origin |-> l.origin,
     referer |-> l.referer,
     request_content_type |-> l.requestContentType,
     request_headers |-> l.requestHeadersJson,
     request_body |-> l.requestBodyString,
     status_code |-> l.response.status,
     status_text |-> StatusTextFromCode(l.response.status),
     response_content_type |-> l.response.contentType,
     response_headers |-> IF l.response.contentType = Null THEN {}
                          ELSE {<<"content-type", l.response.contentType>>},
     response_body |-> l.responseBodyString]

\* Building the record throws when the status or the headers of the response
\* cannot be read.
AssemblyThrows(l) == l.response.kind # "NextResponse"

\* The end of the wrapped handler: re-throw or return.
CallerOutcome(l) ==
    IF l.handlerError.truthy /\ l.handlerError.type # "NextResponse"
    THEN [kind |-> "throw", resp |-> NoResponse, err |-> l.handlerError]
    ELSE [kind |-> "return", resp |-> l.response, err |-> NoError]

NoOutcome == [kind |-> "none", resp |-> NoResponse, err |-> NoError]

NoHist == [failAt |-> 0, setCalls |-> <<>>, handlerCalls |-> 0,
           returned |-> NoResponse, threw |-> NoError, finished |-> "no",
           assembly |-> "none", sink |-> "none", steps |-> <<>>,
           requestBodyUsed |-> FALSE, lateCalls |-> <<>>]


\* ----------------------------------------------------------------- actions
Throws(e) == [kind |-> "throw", resp |-> NoResponse, err |-> e]

\* telemetry.ts:26-67: a call of the wrapped handler starts; ids and defaults,
\* the header capture and the context.
Enter(r) ==
    /\ pc[r] = "idle"
    /\ r \in active
    /\ \E rq \in Drawn(Requests, ConcurrentRequests),
          failAt \in Drawn(HeaderFailPoints, {0}),
          lib \in Drawn(Libs, {"installed"}) :
          LET l == CaptureHeaders(rq, failAt, configuredOrigin, lib)
              escaped == IF failAt = 0 THEN NoError ELSE CatchHeaderCapture(TelemetryError)
          IN /\ request' = [request EXCEPT ![r] = rq]
             /\ hist' = [hist EXCEPT ![r].failAt = failAt,
                                    ![r].steps = Append(@, "headerCapture")]
             /\ loc' = [loc EXCEPT ![r] = l]
             /\ ctx' = [ctx EXCEPT ![r] = BuildContext(l)]
             /\ IF escaped = NoError
                THEN /\ pc' = [pc EXCEPT ![r] = "entered"]
                     /\ UNCHANGED outcome
                ELSE /\ pc' = [pc EXCEPT ![r] = "done"]
                     /\ outcome' = [outcome EXCEPT ![r] = Throws(escaped)]
    /\ UNCHANGED <<active, configuredOrigin, inserted, inflight, sinkRows, xin, xout>>

\* telemetry.ts:76-77: the body is read from request.clone(); the request that
\* goes to the handler has its body unread, whether the capture ran or not.
RequestBodyUsedAfterCapture(l, rq) == FALSE

\* telemetry.ts:73-83: the request body is cloned and read.  An error the
\* inner catch lets through reaches the catch around the handler call.
CaptureRequestBody(r) ==
    /\ pc[r] = "entered"
    /\ LET read == ReadRequestBody(loc[r], request[r])
           escaped == IF read.kind = "throw" THEN CatchRequestBody(read.val) ELSE NoError
       IN IF escaped = NoError
          THEN /\ loc' = [loc EXCEPT ![r].requestBodyString =
                            IF read.kind = "return" /\ read.val # Null THEN read.val ELSE @]
               /\ pc' = [pc EXCEPT ![r] = "calling"]
          ELSE /\ loc' = [loc EXCEPT ![r] = CatchHandlerError(@, escaped)]
               /\ pc' = [pc EXCEPT ![r] = "finished"]
    /\ hist' = [hist EXCEPT ![r].requestBodyUsed =
                    RequestBodyUsedAfterCapture(loc[r], request[r])]
    /\ UNCHANGED <<active, configuredOrigin, request, ctx, outcome,
                   inserted, inflight, sinkRows, xin, xout>>

\* telemetry.ts:85: handler(request, ctx) is called.
CallHandler(r) ==
    /\ pc[r] = "calling"
    /\ pc' = [pc EXCEPT ![r] = "running"]
    /\ hist' = [hist EXCEPT ![r].handlerCalls = @ + 1,
                            ![r].steps = Append(@, "handlerStart")]
    /\ UNCHANGED <<active, configuredOrigin, request, loc, ctx, outcome,
                   inserted, inflight, sinkRows, xin, xout>>

\* A setter that updates the context only.
SetVerifiedWalletCtxOnly(l, c, address) ==
    [loc |-> l, ctx |-> [c EXCEPT !.verifiedWallet = ToLowerCase(address)]]

\* A setter that writes the asserted address into the self-reported one too.
SetVerifiedWalletBoth(l, c, address) ==
    [loc |-> [l EXCEPT !.verifiedWallet = ToLowerCase(address),
                       !.walletAddress = ToLowerCase(address)],
     ctx |-> [c EXCEPT !.verifiedWallet = ToLowerCase(address),
                       !.walletAddress = ToLowerCase(address)]]

\* A setter that keeps an address that is already there.
SetVerifiedWalletKeepFirst(l, c, address) ==
    IF l.verifiedWallet # Null THEN [loc |-> l, ctx |-> c]
    ELSE [loc |-> [l EXCEPT !.verifiedWallet = ToLowerCase(address)],
          ctx |-> [c EXCEPT !.verifiedWallet = ToLowerCase(address)]]

\* telemetry.ts:63-66: ctx.setVerifiedWallet(address).
SetVerifiedWallet(l, c, address) ==
    [loc |-> [l EXCEPT !.verifiedWallet = ToLowerCase(address)],
     ctx |-> [c EXCEPT !.verifiedWallet = ToLowerCase(address)]]

\* The setter writing a variable that all calls of the wrapped handler share.
HandlerSetsVerifiedWalletShared(r) ==
    /\ pc[r] = "running"
    /\ Len(hist[r].setCalls) < Drawn(MaxSetCalls, 1)
    /\ \E address \in Drawn(SetAddrs, {<<"D", "d">>}) :
          /\ loc' = [q \in Reqs |->
                        IF q \in active /\ pc[q] # "idle"
                        THEN SetVerifiedWallet(loc[q], ctx[q], address).loc ELSE loc[q]]
          /\ ctx' = [ctx EXCEPT ![r] = SetVerifiedWallet(loc[r], ctx[r], address).ctx]
          /\ hist' = [hist EXCEPT ![r].setCalls = Append(@, address)]
    /\ UNCHANGED <<active, configuredOrigin, pc, request, outcome,
                   inserted, inflight, sinkRows, xin, xout>>

\* The running handler calls ctx.setVerifiedWallet.
HandlerSetsVerifiedWallet(r) ==
    /\ pc[r] = "running"
    /\ Len(hist[r].setCalls) < Drawn(MaxSetCalls, 1)
    /\ \E address \in Drawn(SetAddrs, {<<"D", "d">>}) :
          LET after == SetVerifiedWallet(loc[r], ctx[r], address)
          IN /\ loc' = [loc EXCEPT ![r] = after.loc]
             /\ ctx' = [ctx EXCEPT ![r] = after.ctx]
             /\ hist' = [hist EXCEPT ![r].setCalls = Append(@, address)]
    /\ UNCHANGED <<active, configuredOrigin, pc, request, outcome,
                   inserted, inflight, sinkRows, xin, xout>>

\* telemetry.ts:85: the handler resolves; response = await handler(...).
HandlerReturns(r) ==
    /\ pc[r] = "running"
    /\ \E resp \in Drawn(HandlerResponses, {Ok200}) :
          /\ loc' = [loc EXCEPT ![r].response = resp]
          /\ hist' = [hist EXCEPT ![r].returned = resp, ![r].finished = "returned",
                                    ![r].steps = Append(@, "handlerEnd")]
    /\ pc' = [pc EXCEPT ![r] = "finished"]
    /\ UNCHANGED <<active, configuredOrigin, request, ctx, outcome,
                   inserted, inflight, sinkRows, xin, xout>>

\* telemetry.ts:86-95: the handler rejects; the catch block normalises.
HandlerThrows(r) ==
    /\ pc[r] = "running"
    /\ \E error \in Drawn(ThrownValues, {ThrownError}) :
          /\ loc' = [loc EXCEPT ![r] = CatchHandlerError(@, error)]
          /\ hist' = [hist EXCEPT ![r].threw = error, ![r].finished = "threw",
                                    ![r].steps = Append(@, "handlerEnd")]
    /\ pc' = [pc EXCEPT ![r] = "finished"]
    /\ UNCHANGED <<active, configuredOrigin, request, ctx, outcome,
                   inserted, inflight, sinkRows, xin, xout>>

\* telemetry.ts:85: the awaited handler promise never settles and the hosting
\* runtime times the request out or cancels it.  The wrapper is suspended at
\* the await; it has set no timer, abort listener or finally block, so none
\* of its code runs for this request again.
RuntimeCancels(r) ==
    /\ pc[r] = "running"
    /\ pc' = [pc EXCEPT ![r] = "cancelled"]
    /\ UNCHANGED <<active, configuredOrigin, request, loc, ctx, hist, outcome,
                   inserted, inflight, sinkRows, xin, xout>>

\* What the catch around the logging block does with an error raised in it:
\* where the call goes on, and what the caller sees.
AfterLoggingError(r, e) ==
    LET escaped == CatchLogging(e)
    IN IF escaped = NoError
       THEN /\ pc' = [pc EXCEPT ![r] = "logged"]
            /\ UNCHANGED outcome
       ELSE /\ pc' = [pc EXCEPT ![r] = "done"]
            /\ outcome' = [outcome EXCEPT ![r] = Throws(escaped)]

\* The logging block entered while the handler is still pending.
HandlerNotAwaited(r) == pc[r] \in {"running", "finished"}

\* telemetry.ts:85: `response = await handler(request, ctx)`; what follows the
\* try/catch around it runs when the handler has settled.
HandlerAwaited(r) == pc[r] = "finished"

\* telemetry.ts:98-105: the response is cloned and its body read.
CaptureResponseBody(r) ==
    /\ HandlerAwaited(r)
    /\ hist' = [hist EXCEPT ![r].steps = Append(@, "responseCapture")]
    /\ LET read == ReadResponseBody(loc[r].response)
           escaped == IF read.kind = "throw" THEN CatchResponseBody(read.val) ELSE NoError
       IN IF escaped = NoError
          THEN /\ loc' = [loc EXCEPT
                            ![r].responseBodyString = IF read.kind = "return" THEN read.val ELSE @,
                            ![r].response = IF read.kind = "return"
                                            THEN ResponseAfterCapture(@) ELSE @]
               /\ pc' = [pc EXCEPT ![r] = "captured"]
               /\ UNCHANGED outcome
          ELSE /\ UNCHANGED loc
               /\ AfterLoggingError(r, escaped)
    /\ UNCHANGED <<active, configuredOrigin, request, ctx,
                   inserted, inflight, sinkRows, xin, xout>>

\* insertInvocation of ./clickhouse: the call is made with the record; the
\* write is dispatched and settles later ("ok", "fail"), or the call itself
\* raises ("throw").
InsertInvocation(invocation, mode) ==
    /\ inserted' = Append(inserted, invocation)
    /\ inflight' = IF mode = "throw" THEN inflight
                   ELSE inflight \cup {[row |-> invocation, mode |-> mode]}

\* telemetry.ts:107-132: the record is assembled and handed over.
LogInvocation(r) ==
    /\ pc[r] = "captured"
    /\ IF AssemblyThrows(loc[r])
       THEN /\ hist' = [hist EXCEPT ![r].assembly = "threw"]
            /\ AfterLoggingError(r, TelemetryError)
            /\ UNCHANGED <<inserted, inflight>>
       ELSE \E mode \in Drawn(SinkModes, {"ok"}) :
               /\ hist' = [hist EXCEPT ![r].assembly = "ok", ![r].sink = mode,
                                        ![r].steps = Append(@, "insertInvocation")]
               /\ InsertInvocation(BuildInvocation(r, loc[r]), mode)
               /\ IF mode = "throw" THEN AfterLoggingError(r, TelemetryError)
                  ELSE /\ pc' = [pc EXCEPT ![r] = "logged"]
                       /\ UNCHANGED outcome
    /\ UNCHANGED <<active, configuredOrigin, request, loc, ctx, sinkRows, xin, xout>>

\* The end of the wrapper held back until the writes of the request settled.
AwaitedWritesOfRequest(r) == {w \in inflight : w.row.id = r}

\* telemetry.ts:129: insertInvocation(invocation) is called without await;
\* the dispatched writes the rest of the wrapper waits for are none.
AwaitedWrites(r) == {}

\* telemetry.ts:134-139: the original error is re-thrown or the response returned.
Exit(r) ==
    /\ pc[r] = "logged"
    /\ AwaitedWrites(r) = {}
    /\ outcome' = [outcome EXCEPT ![r] = CallerOutcome(loc[r])]
    /\ pc' = [pc EXCEPT ![r] = "done"]
    /\ UNCHANGED <<active, configuredOrigin, request, loc, ctx, hist,
                   inserted, inflight, sinkRows, xin, xout>>

\* Records that follow the variable verifiedWallet after they were built.
RecordsFollowVariable(records, r, l) ==
    [i \in DOMAIN records |->
        IF records[i].id = r
        THEN [records[i] EXCEPT !.verified_wallet_address = l.verifiedWallet]
        ELSE records[i]]

\* telemetry.ts:107-113: the record literal took the value verifiedWallet had
\* when it was built (a string); an assignment to the variable afterwards
\* does not reach the records already built.
RecordsAfterSet(records, r, l) == records

\* telemetry.ts:63-66: ctx.setVerifiedWallet(address) called from a callback
\* that outlives the handler, after the record was handed to insertInvocation.
LateSetVerifiedWallet(r) ==
    /\ pc[r] \in {"logged", "done"}
    /\ hist[r].handlerCalls > 0
    /\ \E i \in DOMAIN inserted : inserted[i].id = r
    /\ Len(hist[r].lateCalls) < MaxLateCalls
    /\ \E address \in LateAddrs :
          LET after == SetVerifiedWallet(loc[r], ctx[r], address)
          IN /\ loc' = [loc EXCEPT ![r] = after.loc]
             /\ ctx' = [ctx EXCEPT ![r] = after.ctx]
             /\ inserted' = RecordsAfterSet(inserted, r, after.loc)
             /\ hist' = [hist EXCEPT ![r].lateCalls = Append(@, address)]
    /\ UNCHANGED <<active, configuredOrigin, pc, request, outcome,
                   inflight, sinkRows, xin, xout>>

\* A dispatched write settles: the row is stored, or the failure is logged
\* and dropped.
SinkSettles ==
    /\ \E w \in inflight :
          /\ inflight' = inflight \ {w}
          /\ sinkRows' = IF w.mode = "ok" THEN sinkRows \cup {w.row} ELSE sinkRows
    /\ UNCHANGED <<active, configuredOrigin, pc, request, loc, ctx, hist, outcome,
                   inserted, xin, xout>>

\* ----------------------------------------------------------- specification
NoInput == [hs |-> [broken |-> FALSE, map |-> [n \in HeaderNames |-> Absent]],
            lib |-> "missing"]
NotCalled == [kind |-> "none", val |-> Null]

InitRequests ==
    /\ pc = [r \in Reqs |-> "idle"]
    /\ request = [r \in Reqs |-> NoRequest]
    /\ loc = [r \in Reqs |-> InitialLocals]
    /\ ctx = [r \in Reqs |-> NoContext]
    /\ hist = [r \in Reqs |-> NoHist]
    /\ outcome = [r \in Reqs |-> NoOutcome]
    /\ inserted = <<>>
    /\ inflight = {}
    /\ sinkRows = {}

Init ==
    /\ active = {1}
    /\ configuredOrigin \in ConfiguredOrigins
    /\ InitRequests
    /\ xin = NoInput
    /\ xout = NotCalled

Next ==
    \/ \E r \in Reqs :
          \/ Enter(r)
          \/ CaptureRequestBody(r)
          \/ CallHandler(r)
          \/ HandlerSetsVerifiedWallet(r)
          \/ HandlerReturns(r)
          \/ HandlerThrows(r)
          \/ RuntimeCancels(r)
          \/ CaptureResponseBody(r)
          \/ LogInvocation(r)
          \/ Exit(r)
    \/ SinkSettles

Spec == Init /\ [][Next]_vars

\* The handler may leave callbacks behind that call ctx.setVerifiedWallet
\* after the wrapper has handed the record over.
NextLate == Next \/ \E r \in Reqs : LateSetVerifiedWallet(r)

SpecLate == Init /\ [][NextLate]_vars

\* Every call of the wrapped handler may be in flight at the same time; the
\* steps of the calls interleave in every order.
InitConcurrent ==
    /\ active = Reqs
    /\ configuredOrigin = NotConfigured
    /\ InitRequests
    /\ xin = NoInput
    /\ xout = NotCalled

SpecConcurrent == InitConcurrent /\ [][Next]_vars


\* ------------------------------------------- extractVerifiedWallet, standalone
\* The values a payment header may carry: none, '', an undecodable value, and
\* the encoding of every JSON document.
PaymentValues == {Absent, Plain(<<>>), Garbage} \cup {Encoded(j) : j \in JsonDocs}
PayerValues == {Absent} \cup {Plain(t) : t \in Strs}

ExtractInputs ==
    {[hs |-> [broken |-> FALSE,
              map |-> [n \in HeaderNames |->
                         CASE n = "x-payer-address" -> payer
                           [] n = "payment-signature" -> ps
                           [] n = "x-payment" -> xp
                           [] OTHER -> Absent]],
      lib |-> lib] :
        payer \in PayerValues, ps \in PaymentValues, xp \in PaymentValues, lib \in Libs}
    \cup {[hs |-> [broken |-> TRUE, map |-> [n \in HeaderNames |-> Absent]], lib |-> lib] :
            lib \in Libs}

InitExtract ==
    /\ active = {}
    /\ configuredOrigin = NotConfigured
    /\ InitRequests
    /\ xin \in ExtractInputs
    /\ xout = NotCalled

\* extractVerifiedWallet(headers) is called.
CallExtract ==
    /\ xout = NotCalled
    /\ xout' = ExtractVerifiedWallet(xin.hs, xin.lib)
    /\ UNCHANGED <<active, configuredOrigin, pc, request, loc, ctx, hist, outcome,
                   inserted, inflight, sinkRows, xin>>

SpecExtract == InitExtract /\ [][CallExtract]_vars


\* ================================================================== claims
\* ---- extractVerifiedWallet (checked under SpecExtract)
Called == xout.kind # "none"
XPayer == xin.hs.map["x-payer-address"]
\* The payment-proof header the call looks at: PAYMENT-SIGNATURE when the
\* request carries one, X-PAYMENT otherwise.
XProof == IF xin.hs.map["payment-signature"].present
          THEN xin.hs.map["payment-signature"] ELSE xin.hs.map["x-payment"]

\* C7 as stated: whenever the x-payer-address header is present, the result is
\* its value lower-cased, whatever the payment-proof headers hold.
C7_PresentPayerWins ==
    (Called /\ ~xin.hs.broken /\ XPayer.present)
        => xout = Ret(ToLowerCase(XPayer.text))

\* C7 amended: whenever the x-payer-address header is present with a non-empty
\* value, the result is that value lower-cased, whatever the payment-proof
\* headers hold.
C7_NonEmptyPayerWins ==
    (Called /\ ~xin.hs.broken /\ XPayer.present /\ XPayer.text # <<>>)
        => xout = Ret(ToLowerCase(XPayer.text))

\* C7 witness: an upper-case payer address together with a decodable payment
\* proof naming another payer; the payer address came back lower-cased.
C7_Witness ==
    /\ Called
    /\ XPayer = Plain(<<"A">>)
    /\ XProof.json.ok /\ XProof.json.payload /\ XProof.json.auth = <<"b">>
    /\ xout = Ret(<<"a">>)

\* C8: with no x-payer-address header and a payment-proof header that decodes
\* to a payload, the result is the lower-cased authorization.from when that is
\* a string (also when a flat from is there too), and the lower-cased flat
\* from when authorization.from is missing.
C8_FallbackDecode ==
    (Called /\ ~xin.hs.broken /\ ~XPayer.present /\ XProof.json.ok /\ XProof.json.payload)
        => /\ IsString(XProof.json.auth)
                => xout = Ret(ToLowerCase(XProof.json.auth))
           /\ (XProof.json.auth = Undef /\ IsString(XProof.json.flat))
                => xout = Ret(ToLowerCase(XProof.json.flat))

\* C8 witness: nested and flat payer both present and different, no payer
\* header; the nested one came back lower-cased.
C8_Witness ==
    /\ Called
    /\ ~XPayer.present
    /\ XProof.json.payload /\ XProof.json.auth = <<"A">> /\ XProof.json.flat = <<"b">>
    /\ xout = Ret(<<"a">>)

\* C9: every call returns, with a string or null; a payment-proof header that
\* neither decoder decodes gives null, and so does an unusable headers object.
C9_Total ==
    Called =>
        /\ xout.kind = "return"
        /\ xout.val = Null \/ IsString(xout.val)
        /\ xin.hs.broken => xout.val = Null
        /\ (~xin.hs.broken /\ ~Truthy(XPayer) /\ XProof.present /\ ~XProof.json.ok)
                => xout.val = Null

\* C9 witness: an undecodable payment-proof header, the x402 decoder
\* installed; the call returned null.
C9_Witness ==
    /\ Called
    /\ ~XPayer.present
    /\ XProof = Garbage
    /\ xin.lib = "installed"
    /\ xout = Ret(Null)


\* ---- withTelemetry (checked under Spec)
\* The insertInvocation calls made for request r.
InsertsOf(r) == {i \in DOMAIN inserted : inserted[i].id = r}
Done(r) == pc[r] = "done"
Returned(resp) == [kind |-> "return", resp |-> resp, err |-> NoError]

\* C1 as stated: once a call of the wrapped handler has ended, exactly one
\* insertInvocation call was made for it, and at no time more than one.
C1_ExactlyOneInsert ==
    \A r \in Reqs :
        /\ Cardinality(InsertsOf(r)) <= 1
        /\ (Done(r) /\ hist[r].finished # "no") => Cardinality(InsertsOf(r)) = 1

\* What the caller sees as a function of what the handler did alone.
HandlerOutcome(h) ==
    CASE h.finished = "returned" -> Returned(h.returned)
      [] h.finished = "threw" /\ h.threw.type = "NextResponse" -> Returned(h.threw.resp)
      [] h.finished = "threw" /\ h.threw.type # "NextResponse" /\ h.threw.truthy -> Throws(h.threw)
      [] OTHER -> Returned(ErrorResponse(IF h.threw.type = "Error" THEN h.threw.message
                                         ELSE <<"Internal server error">>))

\* C2: what the caller of an ended call sees is decided by what the handler
\* did, and by nothing the sink did: the same response or the same error
\* whether the write succeeded, failed later, or raised in the call.
C2_SinkIsolation ==
    \A r \in Reqs :
        (Done(r) /\ hist[r].finished # "no") => outcome[r] = HandlerOutcome(hist[r])

\* C2 witness: two of the sink's behaviours seen from the caller's side are
\* covered by one ended call whose insertInvocation raised and which returned
\* the handler's 200 response.
C2_Witness ==
    \E r \in Reqs :
        /\ Done(r)
        /\ hist[r].sink = "throw"
        /\ hist[r].returned = Ok200
        /\ outcome[r] = Returned(Ok200)

\* C3: an error leaves the wrapped handler only when the handler raised, and
\* then it is the handler's own error, which is no NextResponse.
C3_OnlyHandlerErrorEscapes ==
    \A r \in Reqs :
        outcome[r].kind = "throw"
            => /\ hist[r].finished = "threw"
               /\ outcome[r].err = hist[r].threw
               /\ hist[r].threw.type # "NextResponse"

\* C3 witness: the header capture failed, the response body could not be
\* read, insertInvocation raised, and the call still returned.
C3_Witness ==
    \E r \in Reqs :
        /\ Done(r)
        /\ hist[r].failAt = 1
        /\ hist[r].returned = Used200
        /\ hist[r].sink = "throw"
        /\ outcome[r].kind = "return"

\* C4 as stated: when the handler raised a value that is no NextResponse, the
\* ended call raised that same value, and the insertInvocation call was made.
C4_RethrowsOriginal ==
    \A r \in Reqs :
        (Done(r) /\ hist[r].finished = "threw" /\ hist[r].threw.type # "NextResponse")
            => /\ outcome[r] = Throws(hist[r].threw)
               /\ Cardinality(InsertsOf(r)) = 1

\* C5: when the handler raised a NextResponse, the ended call returned that
\* response, and the record handed to insertInvocation carries its status.
C5_ChallengePath ==
    \A r \in Reqs :
        (hist[r].finished = "threw" /\ hist[r].threw.type = "NextResponse")
            => /\ outcome[r].kind # "throw"
               /\ Done(r) => /\ outcome[r] = Returned(hist[r].threw.resp)
                             /\ InsertsOf(r) # {}
               /\ \A i \in InsertsOf(r) : inserted[i].status_code = hist[r].threw.resp.status

\* C5 witness: the handler threw the 402 challenge; the call returned it and
\* the record says 402.
C5_Witness ==
    \E r \in Reqs :
        /\ Done(r)
        /\ hist[r].threw = ThrownChallenge
        /\ outcome[r] = Returned(Challenge402)
        /\ \E i \in InsertsOf(r) : inserted[i].status_code = 402

\* C6: when the handler returned a response, the ended call returned that
\* response, its status, body and read state as the handler left them.
C6_PassiveObserver ==
    \A r \in Reqs :
        (Done(r) /\ hist[r].finished = "returned")
            => outcome[r] = Returned(hist[r].returned)

\* C6 witness: the handler returned the 200 response, its body was captured
\* into the record, and the caller got the response with the body unread.
C6_Witness ==
    \E r \in Reqs :
        /\ Done(r)
        /\ hist[r].returned = Ok200
        /\ \E i \in InsertsOf(r) : inserted[i].response_body = Ok200.body
        /\ outcome[r] = Returned(Ok200)
        /\ ~outcome[r].resp.bodyUsed

\* C10: when the handler called ctx.setVerifiedWallet(a) once, the record
\* handed to insertInvocation has verified_wallet_address = a lower-cased,
\* whatever the header extraction had produced.
C10_AssertionOverride ==
    \A r \in Reqs :
        Len(hist[r].setCalls) = 1
            => \A i \in InsertsOf(r) :
                  inserted[i].verified_wallet_address = ToLowerCase(hist[r].setCalls[1])

\* C10 witness: the extraction had found the payer address, the handler
\* asserted another address in mixed case; the record carries the asserted
\* one lower-cased.
C10_Witness ==
    \E r \in Reqs :
        /\ request[r].headers["x-payer-address"] = Plain(<<"A">>)
        /\ hist[r].failAt = 0
        /\ hist[r].setCalls = << <<"D", "d">> >>
        /\ \E i \in InsertsOf(r) : inserted[i].verified_wallet_address = <<"d", "d">>

\* C11: when the handler called ctx.setVerifiedWallet one or more times, the
\* context it goes on seeing and the record handed to insertInvocation carry
\* the argument of the last call, lower-cased.
C11_LastWriteWins ==
    \A r \in Reqs :
        hist[r].setCalls # <<>>
            => LET last == ToLowerCase(hist[r].setCalls[Len(hist[r].setCalls)])
               IN /\ ctx[r].verifiedWallet = last
                  /\ \A i \in InsertsOf(r) : inserted[i].verified_wallet_address = last

\* C11 witness: no payment header, the handler asserted "Dd" and then "E";
\* the record carries "e".
C11_Witness ==
    \E r \in Reqs :
        /\ ~request[r].headers["x-payer-address"].present
        /\ hist[r].setCalls = << <<"D", "d">>, <<"E">> >>
        /\ \E i \in InsertsOf(r) : inserted[i].verified_wallet_address = <<"e">>

\* The X-Wallet-Address header of request r as its headers object gives it:
\* nothing when the headers object cannot be read.
WalletHeader(r) ==
    IF hist[r].failAt = 1 THEN Absent
    ELSE HeadersGet(request[r].headers, "X-Wallet-Address")

\* C12: from the header capture on, ctx.walletAddress, and x_wallet_address
\* of the record handed to insertInvocation, are the value of the request's
\* X-Wallet-Address header lower-cased, and null when there is no such header.
C12_CaseNormalisation ==
    \A r \in Reqs :
        pc[r] # "idle"
            => LET expected == IF WalletHeader(r).present
                               THEN ToLowerCase(WalletHeader(r).text) ELSE Null
               IN /\ ctx[r].walletAddress = expected
                  /\ \A i \in InsertsOf(r) : inserted[i].x_wallet_address = expected

\* C12 witness: the header "Fe" arrived; the running handler saw "fe" and
\* the record says "fe".
C12_Witness ==
    \E r \in Reqs :
        /\ WalletHeader(r) = Plain(<<"F", "e">>)
        /\ hist[r].handlerCalls = 1
        /\ ctx[r].walletAddress = <<"f", "e">>
        /\ \E i \in InsertsOf(r) : inserted[i].x_wallet_address = <<"f", "e">>

\* The verified addresses the request of r can give without its
\* X-Wallet-Address header: null, and what extractVerifiedWallet returns for
\* the same headers with that header taken out.
VerifiedWithoutWalletHeader(r) ==
    LET h == [request[r].headers EXCEPT ![CanonName("X-Wallet-Address")] = Absent]
    IN {Null} \cup {ExtractVerifiedWallet([broken |-> FALSE, map |-> h], lib).val :
                        lib \in Libs}

\* C13: verified_wallet_address of a record is the last address the handler
\* asserted, or else a value the request gives without its X-Wallet-Address
\* header; and no setVerifiedWallet call changes the self-reported address,
\* in the context or in what the record will carry.
C13_Independence ==
    /\ [](\A r \in Reqs : \A i \in InsertsOf(r) :
            IF hist[r].setCalls # <<>>
            THEN inserted[i].verified_wallet_address =
                    ToLowerCase(hist[r].setCalls[Len(hist[r].setCalls)])
            ELSE inserted[i].verified_wallet_address \in VerifiedWithoutWalletHeader(r))
    /\ [][\A r \in Reqs :
            hist'[r].setCalls # hist[r].setCalls
                => /\ ctx'[r].walletAddress = ctx[r].walletAddress
                   /\ loc'[r].walletAddress = loc[r].walletAddress]_vars

\* C13 witness: the request reported "Fe" and carried no payment header, the
\* handler asserted "E"; the record keeps the two apart.
C13_Witness ==
    \E r \in Reqs :
        /\ hist[r].setCalls = << <<"E">> >>
        /\ ~request[r].headers["x-payer-address"].present
        /\ ctx[r].walletAddress = <<"f", "e">>
        /\ \E i \in InsertsOf(r) :
              /\ inserted[i].x_wallet_address = <<"f", "e">>
              /\ inserted[i].verified_wallet_address = <<"e">>

\* C14 as stated: once the logging block of a call whose handler ended is
\* over, a record was handed to insertInvocation, whatever could be read of
\* the response; a response body that could not be read is null in it.
C14_RecordNeverAborts ==
    \A r \in Reqs :
        (pc[r] \in {"logged", "done"} /\ hist[r].finished # "no")
            => \E i \in InsertsOf(r) :
                  ReadResponseBody(loc[r].response).kind = "throw"
                      => inserted[i].response_body = Null

\* C15 as stated: a call that the hosting runtime timed out or cancelled
\* while its handler was pending has had an insertInvocation call made for it.
C15_CancelledStillLogged ==
    \A r \in Reqs : pc[r] = "cancelled" => InsertsOf(r) # {}

\* C16: once the record was handed over, the wrapped handler can return or
\* re-raise at once, whether or not the dispatched write has settled; and
\* what the caller was given is changed by nothing that happens later, a
\* write that fails afterwards included.
C16_FireAndForget ==
    /\ [](\A r \in Reqs : pc[r] = "logged" => ENABLED Exit(r))
    /\ [][\A r \in Reqs : outcome[r] # NoOutcome => outcome'[r] = outcome[r]]_vars

\* C16 witness: the call has returned the handler's response while its write,
\* which is going to fail, is still in flight.
C16_Witness ==
    \E r \in Reqs :
        /\ Done(r)
        /\ outcome[r] = Returned(Ok200)
        /\ \E w \in inflight : w.row.id = r /\ w.mode = "fail"

\* The request of r carries none of the payer and payment-proof headers.
NoPaymentHeaders(r) ==
    \A n \in {"x-payer-address", "PAYMENT-SIGNATURE", "X-PAYMENT"} :
        ~HeadersGet(request[r].headers, n).present

\* The status the handler of r answered with: of the response it returned or
\* threw, and 500 for any other thrown value.
HandlerStatus(h) ==
    CASE h.finished = "returned" -> h.returned.status
      [] h.finished = "threw" /\ h.threw.type = "NextResponse" -> h.threw.resp.status
      [] OTHER -> 500

\* C17: for a request with none of the x-payer-address, PAYMENT-SIGNATURE and
\* X-PAYMENT headers, whose handler has not called setVerifiedWallet, the
\* extraction gave null (the handler sees ctx.verifiedWallet = null), and the
\* record handed to insertInvocation has verified_wallet_address = null and
\* the status code the handler answered with.
C17_HonestNulls ==
    \A r \in Reqs :
        (pc[r] # "idle" /\ NoPaymentHeaders(r) /\ hist[r].setCalls = <<>>)
            => /\ ctx[r].verifiedWallet = Null
               /\ \A i \in InsertsOf(r) :
                     /\ inserted[i].verified_wallet_address = Null
                     /\ inserted[i].status_code = HandlerStatus(hist[r])

\* C17 witness: a request that reports a wallet but carries no payer and no
\* payment proof, answered 404 by a handler that asserted nothing; the record
\* says 404 and no verified wallet.
C17_Witness ==
    \E r \in Reqs :
        /\ NoPaymentHeaders(r)
        /\ WalletHeader(r).present
        /\ hist[r].failAt = 0
        /\ hist[r].setCalls = <<>>
        /\ hist[r].returned = NotFound404
        /\ \E i \in InsertsOf(r) :
              /\ inserted[i].verified_wallet_address = Null
              /\ inserted[i].status_code = 404

\* The requests that differ from rq in caller-controlled data only: the
\* headers and the host of the URL.
SameButCallerData(rq) ==
    {[rq EXCEPT !.headers = h, !.urlOrigin = o] : h \in RequestHeaderMaps, o \in UrlOrigins}

\* C18 as stated: the origin in the record of a request is the origin any
\* request differing from it only in headers and URL host would have got
\* from the same serving instance.
C18_OriginNotCallerSupplied ==
    \A r \in Reqs : \A i \in InsertsOf(r) :
        \A rq \in SameButCallerData(request[r]), lib \in Libs :
            CaptureHeaders(rq, hist[r].failAt, configuredOrigin, lib).origin
                = inserted[i].origin

\* C19 as stated: an item of the header capture whose own read did not fail
\* is extracted and recorded.  The method can always be read; the header
\* items can be read unless the headers object is unusable (failAt = 1); the
\* route can be read unless request.nextUrl is missing (failAt = 6).
C19_DefensiveHeaderExtraction ==
    \A r \in Reqs :
        pc[r] # "idle"
            => /\ loc[r].method = request[r].method
               /\ hist[r].failAt # 6 => loc[r].route = Route
               /\ hist[r].failAt # 1
                    => /\ loc[r].walletAddress = LowerOrNull(WalletHeader(r))
                       /\ loc[r].clientId = StrOrNull(HeadersGet(request[r].headers, "X-Client-ID"))
                       /\ loc[r].requestHeadersJson = HeadersJson(request[r].headers)
               /\ \A i \in InsertsOf(r) :
                     /\ inserted[i].method = loc[r].method
                     /\ inserted[i].route = loc[r].route
                     /\ inserted[i].request_headers = loc[r].requestHeadersJson

\* The positions of a step in the steps of request r so far.
StepsAt(r, step) == {k \in DOMAIN hist[r].steps : hist[r].steps[k] = step}
Before(r, first, then) ==
    \A k \in StepsAt(r, then) : \E j \in StepsAt(r, first) : j < k

\* C20: in the steps of one request the handler starts only after the header
\* capture, the response body is read only after the handler has ended, and
\* insertInvocation is called only after the response capture; no step
\* happens twice.
C20_StrictOrder ==
    \A r \in Reqs :
        /\ Before(r, "headerCapture", "handlerStart")
        /\ Before(r, "handlerEnd", "responseCapture")
        /\ Before(r, "responseCapture", "insertInvocation")
        /\ \A step \in {"headerCapture", "handlerStart", "handlerEnd",
                          "responseCapture", "insertInvocation"} :
              Cardinality(StepsAt(r, step)) <= 1

\* C20 witness: a call that went through all five steps, in this order.
C20_Witness ==
    \E r \in Reqs :
        hist[r].steps = <<"headerCapture", "handlerStart", "handlerEnd",
                          "responseCapture", "insertInvocation">>

\* ---- concurrent calls (checked under SpecConcurrent)
\* The verified address request r has by its own headers and its own
\* setVerifiedWallet calls.
OwnVerified(r, captured) ==
    IF hist[r].setCalls # <<>>
    THEN ToLowerCase(hist[r].setCalls[Len(hist[r].setCalls)])
    ELSE captured.verifiedWallet

\* C21: with calls in flight side by side, the context of a request and the
\* record handed over for it (id, wallet, client id, session id, verified
\* wallet, status) are what its own headers, its own setVerifiedWallet calls
\* and its own handler outcome give, there is at most one record per request,
\* and a step that is not the request's own leaves its context, its captured
\* values and its record as they are.
C21_ConcurrentIndependence ==
    /\ [](\A r \in Reqs :
            pc[r] # "idle"
                => \E lib \in Libs :
                      LET own == CaptureHeaders(request[r], hist[r].failAt,
                                                configuredOrigin, lib)
                      IN /\ ctx[r] = [BuildContext(own) EXCEPT
                                         !.verifiedWallet = OwnVerified(r, own)]
                         /\ Cardinality(InsertsOf(r)) <= 1
                         /\ \A i \in InsertsOf(r) :
                               /\ inserted[i].x_wallet_address = own.walletAddress
                               /\ inserted[i].x_client_id = own.clientId
                               /\ inserted[i].session_id = own.sessionId
                               /\ inserted[i].verified_wallet_address = OwnVerified(r, own)
                               /\ inserted[i].status_code = HandlerStatus(hist[r]))
    /\ [][\A q \in Reqs :
            (pc'[q] = pc[q] /\ hist'[q] = hist[q])
                => /\ ctx'[q] = ctx[q]
                   /\ loc'[q] = loc[q]
                   /\ \A i \in InsertsOf(q) : inserted'[i] = inserted[i]
                   /\ \A i \in DOMAIN inserted' \ DOMAIN inserted : inserted'[i].id # q]_vars

\* C21 witness: two handlers are running at the same time; the first has
\* asserted "Dd", the second, whose request named payer "A", has asserted
\* nothing and still sees "a".
C21_Witness ==
    /\ pc[1] = "running" /\ pc[2] = "running"
    /\ ~request[1].headers["x-payer-address"].present
    /\ hist[1].setCalls = << <<"D", "d">> >>
    /\ ctx[1].verifiedWallet = <<"d", "d">>
    /\ request[2].headers["x-payer-address"] = Plain(<<"A">>)
    /\ hist[2].setCalls = <<>>
    /\ ctx[2].verifiedWallet = <<"a">>

\* ---- withTelemetry, continued (checked under Spec)
\* C22 as stated: the request_body of a record is the body of the request when
\* its method is POST, PUT or PATCH and the body is readable and non-empty,
\* and null otherwise; and the handler was called with the body unread.
C22_RequestBodyCapture ==
    \A r \in Reqs :
        /\ hist[r].handlerCalls > 0 => ~hist[r].requestBodyUsed
        /\ \A i \in InsertsOf(r) :
              inserted[i].request_body =
                  IF request[r].method \in {"POST", "PUT", "PATCH"} /\ request[r].body = "text"
                  THEN BodyText ELSE Null

\* C23: when the handler raised a value that is no NextResponse, a record is
\* handed over by the end of the logging block; it has status_code 500,
\* status_text 'Internal Server Error', and as response body the synthesised
\* JSON body with the message of the error when the value is an Error and
\* with 'Internal server error' otherwise.
C23_FailureNormalisation ==
    \A r \in Reqs :
        (hist[r].finished = "threw" /\ hist[r].threw.type # "NextResponse")
            => LET message == IF hist[r].threw.type = "Error" THEN hist[r].threw.message
                              ELSE <<"Internal server error">>
               IN /\ pc[r] \in {"logged", "done"} => InsertsOf(r) # {}
                  /\ \A i \in InsertsOf(r) :
                        /\ inserted[i].status_code = 500
                        /\ inserted[i].status_text = "Internal Server Error"
                        /\ inserted[i].response_body =
                              <<"{success:false,error:">> \o message \o <<"}">>

\* C23 witness: the handler threw a string; the record says 500 and carries
\* the generic message, not the string.
C23_Witness ==
    \E r \in Reqs :
        /\ hist[r].threw = ThrownString
        /\ \E i \in InsertsOf(r) :
              /\ inserted[i].status_code = 500
              /\ inserted[i].status_text = "Internal Server Error"
              /\ inserted[i].response_body =
                    <<"{success:false,error:", "Internal server error", "}">>

\* ---- setVerifiedWallet after the hand-over (checked under SpecLate)
\* C24: a setVerifiedWallet call made after the record was handed to
\* insertInvocation changes no record handed over, in flight or stored; and
\* every record keeps the verified address it was handed over with: the last
\* one the handler asserted while it ran, or else the extracted one.
C24_WrittenRecordUnchanged ==
    /\ [][\A r \in Reqs :
            hist'[r].lateCalls # hist[r].lateCalls
                => /\ inserted' = inserted
                   /\ inflight' = inflight
                   /\ sinkRows' = sinkRows]_vars
    /\ [](\A r \in Reqs : \A i \in InsertsOf(r) :
            \E lib \in Libs :
                inserted[i].verified_wallet_address =
                    OwnVerified(r, CaptureHeaders(request[r], hist[r].failAt,
                                                  configuredOrigin, lib)))

\* C24 witness: the record went out with the extracted payer "a"; afterwards
\* a callback asserted "E", the context says "e" and the record still "a".
C24_Witness ==
    \E r \in Reqs :
        /\ hist[r].setCalls = <<>>
        /\ hist[r].lateCalls = << <<"E">> >>
        /\ ctx[r].verifiedWallet = <<"e">>
        /\ \E i \in InsertsOf(r) : inserted[i].verified_wallet_address = <<"a">>

\* ---- withTelemetry, continued (checked under Spec)
\* C25: the handler is called at most once per call of the wrapped handler,
\* and a call that has got past the request-body capture, or has ended, has
\* called it exactly once, whether or not the header capture or the
\* request-body capture failed.
C25_HandlerCalledOnce ==
    \A r \in Reqs :
        /\ hist[r].handlerCalls <= 1
        /\ pc[r] \notin {"idle", "entered", "calling"} => hist[r].handlerCalls = 1

\* C25 witness: reading the body of a POST request failed; the handler was
\* called once and the call returned its response.
C25_Witness ==
    \E r \in Reqs :
        /\ Done(r)
        /\ hist[r].failAt = 0
        /\ request[r].method = "POST" /\ request[r].body = "error"
        /\ hist[r].handlerCalls = 1
        /\ outcome[r] = Returned(Ok200)

\* C26: while the handler has asserted nothing, ctx.verifiedWallet is the
\* value the header capture extracted (the result of extractVerifiedWallet
\* when the capture ran through); at all times ctx.verifiedWallet is the
\* value of the variable the record is built from, and a record handed over
\* carries the value ctx.verifiedWallet has.
C26_ContextRecordAgreement ==
    \A r \in Reqs :
        pc[r] # "idle"
            => /\ hist[r].setCalls = <<>>
                    => \E lib \in Libs :
                          /\ ctx[r].verifiedWallet =
                                CaptureHeaders(request[r], hist[r].failAt,
                                               configuredOrigin, lib).verifiedWallet
                          /\ hist[r].failAt = 0
                                => ctx[r].verifiedWallet =
                                      ExtractVerifiedWallet([broken |-> FALSE,
                                                             map |-> request[r].headers],
                                                            lib).val
               /\ ctx[r].verifiedWallet = loc[r].verifiedWallet
               /\ \A i \in InsertsOf(r) :
                     inserted[i].verified_wallet_address = ctx[r].verifiedWallet

\* C26 witness: the request named payer "A"; the handler asserted "Dd" and
\* then "E"; context and record both say "e".
C26_Witness ==
    \E r \in Reqs :
        /\ request[r].headers["x-payer-address"] = Plain(<<"A">>)
        /\ hist[r].failAt = 0
        /\ Len(hist[r].setCalls) = 2
        /\ ctx[r].verifiedWallet = <<"e">>
        /\ \E i \in InsertsOf(r) : inserted[i].verified_wallet_address = <<"e">>

\* ---- extractVerifiedWallet, continued (checked under SpecExtract)
XSignature == xin.hs.map["payment-signature"]
XPayment == xin.hs.map["x-payment"]

\* The payer a payment-proof header value yields: the lower-cased
\* authorization.from or else flat from of its decoded payload when that is a
\* string, and null otherwise (no value, not decodable, no payload, no from).
PayerYielded(hv) ==
    IF hv.present /\ hv.json.ok /\ hv.json.payload
    THEN (IF IsString(hv.json.auth) THEN ToLowerCase(hv.json.auth)
          ELSE IF hv.json.auth = Undef /\ IsString(hv.json.flat)
               THEN ToLowerCase(hv.json.flat)
          ELSE Null)
    ELSE Null

\* C27: with no usable x-payer-address, the result is what the
\* PAYMENT-SIGNATURE header yields whenever that header is present, whatever
\* X-PAYMENT carries (null when it yields no payer), and what X-PAYMENT yields
\* only when PAYMENT-SIGNATURE is absent.
C27_ProofHeaderSelection ==
    (Called /\ ~xin.hs.broken /\ ~Truthy(XPayer))
        => xout = Ret(IF XSignature.present THEN PayerYielded(XSignature)
                      ELSE PayerYielded(XPayment))

\* C27 witness: PAYMENT-SIGNATURE is there and cannot be decoded, X-PAYMENT
\* carries a decodable payer "A"; the result is null.
C27_Witness ==
    /\ Called
    /\ ~XPayer.present
    /\ XSignature = Garbage
    /\ XPayment.json.ok /\ XPayment.json.payload /\ XPayment.json.auth = <<"A">>
    /\ xout = Ret(Null)

====
